---- MODULE Spec2Model ----
(***************************************************************************)
(* The Recycle Bin store of CinnaOS.py: the index document index.json, the *)
(* archived blobs beside it, and the three operations move_to_recycle,     *)
(* restore_from_recycle and empty_recycle, each modelled as one atomic     *)
(* call made from the single GUI thread.  Every I/O step a call makes may  *)
(* fail; the failure of each step is an input of the action.  SpecRace     *)
(* splits move_to_recycle at its accesses to index.json, for two instances *)
(* of the program working on the same archive.                             *)
(***************************************************************************)
EXTENDS Integers, Sequences, FiniteSets, TLC

\* ------------------------------------------------------------------ bounds
\* Largest value int(time.time()) takes in a run (the clock starts at 1).
MaxTime == 2
\* Largest number of store calls in a run.
MaxOps == 3

\* ------------------------------------------------------------------- paths
\* A path is the sequence of its components; a trailing "" component is a
\* trailing separator ("/u/d/").
Basename(p) == IF p = <<>> THEN "" ELSE p[Len(p)]

Abspath(p) == IF p # <<>> /\ p[Len(p)] = "" THEN SubSeq(p, 1, Len(p) - 1) ELSE p

Parent(p) == IF p = <<>> THEN <<>> ELSE SubSeq(p, 1, Len(p) - 1)

\* The paths of the file system outside the archive directory.
FsPaths == {<<"u">>, <<"v">>, <<"w">>, <<"u", "a">>, <<"v", "a">>, <<"u", "d">>, <<"w", "t">>}

\* The paths handed to move_to_recycle: two regular files of the same base
\* name and a directory, written with a trailing separator.
MovePaths == {<<"u", "a">>, <<"v", "a">>, <<"u", "d", "">>}

\* The target_path argument of restore_from_recycle; <<>> is None.
NoTarget == <<>>

Targets == {NoTarget, <<"w", "t">>}

\* ------------------------------------------------------------- file nodes
Absent == [k |-> "absent", c |-> <<>>]

Dir == [k |-> "dir", c |-> <<>>]

File(c) == [k |-> "file", c |-> c]

\* The node at path p; the root always is a directory.
NodeAt(f, p) == IF p = <<>> THEN Dir ELSE IF p \in DOMAIN f THEN f[p] ELSE Absent

IsFile(f, p) == NodeAt(f, p).k = "file"

\* The strict prefixes of a byte string: what a write that fails part-way leaves.
Prefixes(c) == {SubSeq(c, 1, n) : n \in 0..(Len(c) - 1)}

\* -------------------------------------------------------------- the index
Names == {"a", "unknown"}

\* key = f"{timestamp}_{name}"
MakeKey(t, name) == <<t, name>>

\* A key found in an index document that was on disk before the program started.
OldKey == <<0, "old">>

AllKeys == {MakeKey(t, nm) : t \in 1..MaxTime, nm \in Names} \cup {OldKey}

\* The value None of an entry's "saved" field.
NoSaved == <<0, "">>

\* A JSON null where an entry object is expected.
NullEntry == [null |-> TRUE, orig |-> <<>>, type |-> "", saved |-> NoSaved]

Entry(orig, type, saved) == [null |-> FALSE, orig |-> orig, type |-> type, saved |-> saved]

EmptyMap == [k \in {} |-> NullEntry]

\* Put as a store that never replaces an entry would do it.
PutIfAbsent(m, k, e) == [x \in (DOMAIN m) \cup {k} |-> IF x \in DOMAIN m THEN m[x] ELSE e]

Put(m, k, e) == [x \in (DOMAIN m) \cup {k} |-> IF x = k THEN e ELSE m[x]]

Pop(m, k) == [x \in (DOMAIN m) \ {k} |-> m[x]]

\* The content of index.json: t is "absent" (no such file), "garbage" (text
\* json.loads rejects), or the shape of the JSON value it holds; m is the
\* mapping when t = "map".
DocOf(t, m) == [t |-> t, m |-> m]

EmptyDoc == DocOf("map", EmptyMap)

Garbage == DocOf("garbage", EmptyMap)

VARIABLES fs, blobs, doc, clock, nops, last, prev, writers

vars == <<fs, blobs, doc, clock, nops, last, prev, writers>>

\* ------------------------------------------------------- load and save
\* load_recycle_index without its except clause's {}.
LoadNoFallback(d) == d

\* load_recycle_index: the parsed document, of whatever shape it has; {} when
\* read_text or json.loads raises (a document that cannot be read is "absent").
LoadRecycleIndex(d) ==
    IF d.t \in {"absent", "garbage"} THEN EmptyDoc ELSE d

\* A save that keeps the entries the document on disk holds beside idx's.
SaveMerging(d, idx, sv) ==
    CASE sv = "ok" /\ d.t = "map" /\ idx.t = "map" ->
            DocOf("map", [k \in (DOMAIN d.m) \cup (DOMAIN idx.m) |->
                            IF k \in DOMAIN idx.m THEN idx.m[k] ELSE d.m[k]])
      [] sv = "ok" -> idx
      [] sv = "pre" -> d
      [] OTHER -> Garbage

\* save_recycle_index: write_text opens the file for writing (truncating it)
\* and then writes; "pre" fails before the open, "post" after the truncation.
SaveRecycleIndex(d, idx, sv) ==
    CASE sv = "ok" -> idx
      [] sv = "pre" -> d
      [] OTHER -> Garbage

\* The record of a call: its arguments, its result (ok, msg, raised), whether
\* any of its I/O steps was made to fail (clean = none was), whether its
\* load_recycle_index fell back to {} (reset), the stage at which its copy
\* step ended (st), and the file it read (file, c).
NoCall ==
    [op |-> "none", path |-> <<>>, key |-> NoSaved, tgt |-> NoTarget, ok |-> FALSE,
     msg |-> "", raised |-> FALSE, clean |-> TRUE, reset |-> FALSE, st |-> "",
     file |-> FALSE, c |-> <<>>]

\* What is kept of the call before the last one: its operation, whether it
\* ran without failure, and whether it and every call before it was a
\* move_to_recycle.
Summary(call, before) ==
    [op |-> call.op, clean |-> call.clean /\ ~call.raised,
     moves |-> before.moves /\ call.op \in {"none", "move"}]

NoHistory == [op |-> "none", clean |-> TRUE, moves |-> TRUE]

\* Two instances of the program started on the same BASE_FOLDER; each is at
\* some line of one move_to_recycle call.
Writers == {1, 2}

\* A writer's position (pc) in move_to_recycle and its local variables: path,
\* key, and idx, the index it loaded and mutates in memory.
Idle == [pc |-> "idle", path |-> <<>>, key |-> NoSaved, seen |-> {}, idx |-> EmptyDoc]

\* The file system the program starts in: two regular files, a directory,
\* and no directory w yet.
InitFs ==
    [p \in FsPaths |->
        CASE p = <<"u", "a">> -> File(<<1>>)
          [] p = <<"v", "a">> -> File(<<2>>)
          [] p \in {<<"w">>, <<"w", "t">>} -> Absent
          [] OTHER -> Dir]

\* RECYCLE_DIR.mkdir(...); if not RECYCLE_INDEX.exists(): write "{}".  The
\* archive is created empty, with the index document the program writes.
Init ==
    /\ fs = InitFs
    /\ blobs = [k \in AllKeys |-> Absent]
    /\ doc = EmptyDoc
    /\ clock = 1
    /\ nops = 0
    /\ last = NoCall
    /\ prev = NoHistory
    /\ writers = [w \in Writers |-> Idle]

\* ------------------------------------------------------- move_to_recycle
\* The name without the `or "unknown"`.
MoveNameNoFallback(path) == Basename(path)

\* name = os.path.basename(path) or "unknown"
MoveName(path) == IF Basename(path) = "" THEN "unknown" ELSE Basename(path)

\* The copy step opening the target and writing nothing.
CopyInTruncating(b, key, content, cp, pre) ==
    IF cp = "pre" THEN b ELSE [b EXCEPT ![key] = File(<<>>)]

\* The archive after the copy step `with open(path, "rb") as src, open(target,
\* "wb") as dst: dst.write(src.read())`: cp = "pre" fails before target is
\* opened, cp = "post" after it was opened (and truncated), with pre written.
CopyIn(b, key, content, cp, pre) ==
    CASE cp = "ok" -> [b EXCEPT ![key] = File(content)]
      [] cp = "pre" -> b
      [] OTHER -> [b EXCEPT ![key] = File(pre)]

\* The original removed whether or not the copy was made.
RemoveOriginalAlways(f, path, copied, rm) ==
    IF rm = "ok" /\ path \in DOMAIN f THEN [f EXCEPT ![path] = Absent] ELSE f

\* os.remove(path) inside its own try/except: reached only after the copy.
RemoveOriginal(f, path, copied, rm) ==
    IF copied /\ rm = "ok" THEN [f EXCEPT ![path] = Absent] ELSE f

\* The entry recorded with "unknown" for every item that was not copied.
MoveEntryNoError(path, key, isf, copied) ==
    IF copied
    THEN Entry(Abspath(path), "file", key)
    ELSE Entry(Abspath(path), "unknown", NoSaved)

\* The entry recorded with the saved path set whatever the type.
MoveEntryKeepsSaved(path, key, isf, copied) ==
    CASE copied -> Entry(Abspath(path), "file", key)
      [] ~isf -> Entry(Abspath(path), "unknown", key)
      [] OTHER -> Entry(Abspath(path), "error", key)

\* The entry recorded without the os.path.isfile test.
MoveEntryNoIsfile(path, key, isf, copied) ==
    IF isf /\ ~copied
    THEN Entry(Abspath(path), "error", NoSaved)
    ELSE Entry(Abspath(path), "file", key)

\* The entry move_to_recycle records under key.
MoveEntry(path, key, isf, copied) ==
    CASE copied -> Entry(Abspath(path), "file", key)
      [] ~isf -> Entry(Abspath(path), "unknown", NoSaved)
      [] OTHER -> Entry(Abspath(path), "error", NoSaved)

\* move_to_recycle(path) called when int(time.time()) = t.
Move(path, t, cp, pre, rm, sv) ==
    LET idx == LoadRecycleIndex(doc)
        key == MakeKey(t, MoveName(path))
        isf == IsFile(fs, path)
        content == NodeAt(fs, path).c
        copied == isf /\ cp = "ok"
        \* idx[key] = ... raises TypeError on anything but a dict, in the try
        \* block and again in its except clause
        raises == idx.t # "map"
        idx2 == DocOf("map", Put(idx.m, key, MoveEntry(path, key, isf, copied)))
    IN  /\ nops < MaxOps
        /\ blobs' = IF isf THEN CopyIn(blobs, key, content, cp, pre) ELSE blobs
        /\ fs' = RemoveOriginal(fs, path, copied, rm)
        /\ doc' = IF raises THEN doc ELSE SaveRecycleIndex(doc, idx2, sv)
        /\ clock' = t
        /\ nops' = nops + 1
        /\ prev' = Summary(last, prev)
        /\ last' = [op |-> "move", path |-> path, key |-> key, tgt |-> NoTarget,
                    ok |-> ~raises, msg |-> "", raised |-> raises,
                    clean |-> (cp = "ok" /\ rm = "ok" /\ sv = "ok"),
                    reset |-> (doc.t \in {"absent", "garbage"}),
                    st |-> cp, file |-> isf, c |-> content]

\* ---------------------------------------------------- restore_from_recycle
\* dest.parent.mkdir(parents=True, exist_ok=True)
MkdirParents(f, p) ==
    IF p # <<>> /\ NodeAt(f, p).k = "absent" THEN [f EXCEPT ![p] = Dir] ELSE f

\* The copy step of restore_from_recycle raises: a step was made to fail, the
\* parent of dest is a file, the archived blob is missing, or dest is a directory.
RestoreCopyStage(f, b, saved, dest, cp) ==
    CASE cp = "mkdir" \/ NodeAt(f, Parent(dest)).k = "file" -> "mkdir"
      [] cp = "open" \/ b[saved].k # "file" \/ NodeAt(f, dest).k = "dir" -> "open"
      [] cp = "write" -> "write"
      [] OTHER -> "ok"

\* The file system after the copy step that ended at stage st.
RestoreCopy(f, b, saved, dest, st, pre) ==
    CASE st = "mkdir" -> f
      [] st = "open" -> MkdirParents(f, Parent(dest))
      [] st = "write" -> [MkdirParents(f, Parent(dest)) EXCEPT ![dest] = File(pre)]
      [] OTHER -> [MkdirParents(f, Parent(dest)) EXCEPT ![dest] = File(b[saved].c)]

\* The destination when target_path is ignored.
RestoreDestOrig(entry, tgt) == entry.orig

\* dest = Path(target_path) if target_path else Path(entry["orig"])
RestoreDest(entry, tgt) == IF tgt # NoTarget THEN tgt ELSE entry.orig

\* Path(entry["saved"]).unlink() inside its own try/except
Unlink(b, saved, un) == IF un = "ok" THEN [b EXCEPT ![saved] = Absent] ELSE b

\* The unlink done whether or not the copy succeeded.
RestoreBlobsEager(b, saved, done, un) == Unlink(b, saved, un)

\* The index written back on every path, not only on success.
RestoreDocAlways(d, idx, key, done, sv) ==
    SaveRecycleIndex(d, DocOf("map", Pop(idx.m, key)), sv)

\* The archive after the call on an entry that has a saved blob: the blob is
\* unlinked only once the copy is done.
RestoreBlobs(b, saved, done, un) == IF done THEN Unlink(b, saved, un) ELSE b

\* The document after the call: idx.pop(key, None); save_recycle_index(idx) is
\* on the success path only.
RestoreDoc(d, idx, key, done, sv) ==
    IF done THEN SaveRecycleIndex(d, DocOf("map", Pop(idx.m, key)), sv) ELSE d

\* How the call leaves before touching anything: "raise" (`key not in idx`
\* raises TypeError on a number or null, outside the try block), "notfound",
\* "null" (entry.get on None raises inside the try block), or "go".
RestoreEntry(idx, key) ==
    CASE idx.t \in {"num", "null"} -> "raise"
      [] idx.t # "map" -> "notfound"
      [] key \notin DOMAIN idx.m -> "notfound"
      [] idx.m[key].null -> "null"
      [] OTHER -> "go"

Restore(key, tgt, cp, pre, un, sv) ==
    LET idx == LoadRecycleIndex(doc)
        how == RestoreEntry(idx, key)
        entry == idx.m[key]
        has == how = "go" /\ entry.saved # NoSaved
        dest == RestoreDest(entry, tgt)
        st == IF has THEN RestoreCopyStage(fs, blobs, entry.saved, dest, cp) ELSE "ok"
        done == how = "go" /\ st = "ok"
    IN  /\ nops < MaxOps
        /\ fs' = IF has THEN RestoreCopy(fs, blobs, entry.saved, dest, st, pre) ELSE fs
        /\ blobs' = IF has THEN RestoreBlobs(blobs, entry.saved, done, un) ELSE blobs
        /\ doc' = RestoreDoc(doc, idx, key, done, sv)
        /\ UNCHANGED clock
        /\ nops' = nops + 1
        /\ prev' = Summary(last, prev)
        /\ last' = [op |-> "restore", path |-> <<>>, key |-> key, tgt |-> tgt,
                    ok |-> done,
                    msg |-> CASE done -> "Restored"
                              [] how = "notfound" -> "Not found"
                              [] how = "raise" -> ""
                              [] OTHER -> "error",
                    raised |-> (how = "raise"),
                    clean |-> (cp = "ok" /\ un = "ok" /\ sv = "ok"),
                    reset |-> (doc.t \in {"absent", "garbage"}),
                    st |-> st, file |-> has, c |-> IF has THEN blobs[entry.saved].c ELSE <<>>]

\* ------------------------------------------------------------ empty_recycle
\* The archived blobs the index names: v["saved"] of every entry that has one.
SavedOf(m) == {m[k].saved : k \in {x \in DOMAIN m : ~m[x].null /\ m[x].saved # NoSaved}}

\* idx.items() raises on anything but a dict, and v.get raises on a null
\* entry, both outside any try block.  A null entry is one that was in the
\* document before the program started, so it is the first the loop meets.
EmptyRaises(idx) == idx.t # "map" \/ \E k \in DOMAIN idx.m : idx.m[k].null

\* The archive after the loop; failed is the set of blobs whose unlink raised.
UnlinkAll(b, m, failed) ==
    [k \in DOMAIN b |-> IF k \in SavedOf(m) \ failed THEN Absent ELSE b[k]]

\* The loaded index written back instead of {}.
EmptiedKeepsIndex(idx) == idx

\* save_recycle_index({})
Emptied(idx) == EmptyDoc

Empty(failed, sv) ==
    LET idx == LoadRecycleIndex(doc)
        raises == EmptyRaises(idx)
    IN  /\ nops < MaxOps
        /\ blobs' = IF raises THEN blobs ELSE UnlinkAll(blobs, idx.m, failed)
        /\ doc' = IF raises THEN doc ELSE SaveRecycleIndex(doc, Emptied(idx), sv)
        /\ UNCHANGED <<fs, clock>>
        /\ nops' = nops + 1
        /\ prev' = Summary(last, prev)
        /\ last' = [op |-> "empty", path |-> <<>>, key |-> NoSaved, tgt |-> NoTarget,
                    ok |-> ~raises, msg |-> "", raised |-> raises,
                    clean |-> (failed = {} /\ sv = "ok"),
                    reset |-> (doc.t \in {"absent", "garbage"}),
                    st |-> "", file |-> FALSE, c |-> <<>>]

\* ------------------------------------------------------------ specification
\* The failures each I/O step of a call can meet; a step the call does not
\* reach has none.
SaveFaults(reached) == IF reached THEN {"ok", "pre", "post"} ELSE {"ok"}

Faults(reached, fs_) == IF reached THEN {"ok"} \cup fs_ ELSE {"ok"}

PartialWrites(cp, stage, c) == IF cp = stage THEN Prefixes(c) ELSE {<<>>}

\* int(time.time()) does not decrease, and timestamps are only compared for
\* equality: a call is made in the second of the call before it or in a later
\* one, which is modelled as the next.
Now == {t \in {clock, clock + 1} : t <= MaxTime}

MoveCall ==
    /\ UNCHANGED writers
    /\ \E path \in MovePaths, t \in Now :
        \E cp \in Faults(IsFile(fs, path), {"pre", "post"}) :
          \E pre \in PartialWrites(cp, "post", NodeAt(fs, path).c),
             rm \in Faults(IsFile(fs, path) /\ cp = "ok", {"fail"}),
             sv \in SaveFaults(LoadRecycleIndex(doc).t = "map") :
              Move(path, t, cp, pre, rm, sv)

\* The keys restore_from_recycle is called with: those of the index, those of
\* the blobs in the archive, one from before the start and the one a move of a
\* would make now.  A key that was never made behaves as any other such key.
RestoreKeys ==
    (DOMAIN LoadRecycleIndex(doc).m) \cup {k \in AllKeys : blobs[k].k = "file"}
        \cup {OldKey, MakeKey(clock, "a")}

RestoreCall ==
    /\ UNCHANGED writers
    /\ \E key \in RestoreKeys, tgt \in Targets :
        LET idx == LoadRecycleIndex(doc)
            go == RestoreEntry(idx, key) = "go"
            has == go /\ idx.m[key].saved # NoSaved
        IN  \E cp \in Faults(has, {"mkdir", "open", "write"}) :
              \E pre \in PartialWrites(IF has THEN cp ELSE "ok", "write",
                                       IF has THEN blobs[idx.m[key].saved].c ELSE <<>>),
                 un \in Faults(has /\ cp = "ok", {"fail"}),
                 sv \in SaveFaults(go /\ cp = "ok") :
                  Restore(key, tgt, cp, pre, un, sv)

EmptyCall ==
    /\ UNCHANGED writers
    /\ LET idx == LoadRecycleIndex(doc)
           runs == ~EmptyRaises(idx)
       IN  \E failed \in SUBSET (IF runs THEN {k \in SavedOf(idx.m) : blobs[k].k = "file"} ELSE {}),
                sv \in SaveFaults(runs) :
                 Empty(failed, sv)

Next == MoveCall \/ RestoreCall \/ EmptyCall

Spec == Init /\ [][Next]_vars

\* The index documents the program may find on disk: line 95 keeps whatever
\* index.json holds at the start.  The shapes are those json.loads can return:
\* a mapping, a mapping with a null value, a list (empty), a string (holding
\* no key), a number, null; or no file at all.  (Text json.loads rejects is
\* what a failed save leaves.)
DocContents ==
    {EmptyDoc, DocOf("absent", EmptyMap), DocOf("list", EmptyMap),
     DocOf("str", EmptyMap), DocOf("num", EmptyMap), DocOf("null", EmptyMap),
     DocOf("map", Put(EmptyMap, OldKey, NullEntry))}

InitAnyDoc ==
    /\ fs = InitFs
    /\ blobs = [k \in AllKeys |-> Absent]
    /\ doc \in DocContents
    /\ clock = 1
    /\ nops = 0
    /\ last = NoCall
    /\ prev = NoHistory
    /\ writers = [w \in Writers |-> Idle]

SpecAnyDoc == InitAnyDoc /\ [][Next]_vars

\* ------------------------------------------- two writers on one index.json
\* Lines 172-176 of a writer's call: idx = load_recycle_index(), then the key
\* from the path and the time.  seen is the set of keys the writer loaded.
RaceLoad(w, path, t) ==
    /\ writers[w].pc = "idle"
    /\ writers' = [writers EXCEPT ![w] =
                      [pc |-> "loaded", path |-> path,
                       key |-> MakeKey(t, MoveName(path)),
                       seen |-> DOMAIN LoadRecycleIndex(doc).m,
                       idx |-> LoadRecycleIndex(doc)]]
    /\ clock' = t
    /\ UNCHANGED <<fs, blobs, doc, nops, last, prev>>

\* Lines 177-189: the copy, the removal of the original, and idx[key] = entry
\* in the writer's own memory; no step failing.
RaceCopy(w) ==
    LET me == writers[w]
        isf == IsFile(fs, me.path)
    IN  /\ me.pc = "loaded"
        /\ blobs' = IF isf THEN CopyIn(blobs, me.key, NodeAt(fs, me.path).c, "ok", <<>>)
                           ELSE blobs
        /\ fs' = RemoveOriginal(fs, me.path, isf, "ok")
        /\ writers' = [writers EXCEPT ![w].pc = "copied",
                                      ![w].idx = DocOf("map", Put(me.idx.m, me.key,
                                                    MoveEntry(me.path, me.key, isf, isf)))]
        /\ UNCHANGED <<doc, clock, nops, last, prev>>

\* Line 190: save_recycle_index(idx) overwrites the document with the
\* writer's idx.
RaceSave(w) ==
    /\ writers[w].pc = "copied"
    /\ doc' = SaveRecycleIndex(doc, writers[w].idx, "ok")
    /\ writers' = [writers EXCEPT ![w].pc = "done"]
    /\ UNCHANGED <<fs, blobs, clock, nops, last, prev>>

RaceLoadStep == \E w \in Writers, path \in MovePaths, t \in Now : RaceLoad(w, path, t)

RaceCopyStep == \E w \in Writers : RaceCopy(w)

RaceSaveStep == \E w \in Writers : RaceSave(w)

RaceNext == RaceLoadStep \/ RaceCopyStep \/ RaceSaveStep

SpecRace == Init /\ [][RaceNext]_vars

TypeOK ==
    /\ doc.t \in {"absent", "garbage", "map", "list", "str", "num", "null"}
    /\ DOMAIN doc.m \subseteq AllKeys
    /\ clock \in 1..MaxTime
    /\ nops \in 0..MaxOps

\* ------------------------------------------------------------------ claims
\* A step of the specification that is a call.
Called == nops' = nops + 1

\* The index as the next call reads it.
Index == LoadRecycleIndex(doc).m

\* C1. Round trip: when move_to_recycle(P) of a regular file with content C
\* returned K and the next call is restore_from_recycle(K) with no target, no
\* I/O step of either call failing, the restore returns (True, "Restored"),
\* P holds C again, the blob K is gone and K is not in the index.
C1_RoundTrip ==
    [][(/\ Called
        /\ last.op = "move" /\ last.file /\ last.clean /\ ~last.raised
        /\ last'.op = "restore" /\ last'.key = last.key
        /\ last'.tgt = NoTarget /\ last'.clean)
       => (/\ last'.ok /\ last'.msg = "Restored"
           /\ fs'[Abspath(last.path)] = File(last.c)
           /\ blobs'[last.key] = Absent
           /\ doc'.t = "map" /\ last.key \notin DOMAIN doc'.m)]_vars

\* The second of two calls: the restore found the entry the move made.
C1_Witness ==
    /\ nops = 2 /\ prev.op = "move" /\ prev.clean
    /\ last.op = "restore" /\ last.ok /\ last.clean /\ last.file /\ last.tgt = NoTarget
    /\ fs[<<"u", "a">>] = File(<<1>>)
    /\ blobs[last.key] = Absent
    /\ last.key \notin DOMAIN doc.m

\* C2. restore_from_recycle of a key that is not in the index, with or
\* without a target, returns (False, "Not found") and changes neither the
\* index document, nor a blob, nor a file.
C2_NotFound ==
    [][(Called /\ last'.op = "restore" /\ last'.key \notin DOMAIN Index)
       => (/\ ~last'.ok /\ last'.msg = "Not found" /\ ~last'.raised
           /\ doc' = doc /\ blobs' = blobs /\ fs' = fs)]_vars

C2_Witness ==
    /\ last.op = "restore" /\ last.msg = "Not found" /\ last.tgt # NoTarget
    /\ doc.t = "map" /\ DOMAIN doc.m # {} /\ last.key \notin DOMAIN doc.m
    /\ \E k \in AllKeys : blobs[k].k = "file"

\* C3. After any sequence of move_to_recycle calls, an empty_recycle() in
\* which no I/O step fails leaves the index empty and leaves no blob in the
\* archive (the archive starts empty: every blob in it was created by a move).
C3_EmptyLeavesNothing ==
    (last.op = "empty" /\ last.clean /\ prev.op = "move" /\ prev.moves)
    => (doc = EmptyDoc /\ \A k \in AllKeys : blobs[k] = Absent)

\* C4. empty_recycle() twice in a row, no I/O step failing: both return True
\* without raising, the second changes nothing, and the index is empty.
C4_EmptyTwice ==
    [][(/\ Called
        /\ last.op = "empty" /\ last.clean
        /\ last'.op = "empty" /\ last'.clean)
       => (/\ last.ok /\ ~last.raised /\ last'.ok /\ ~last'.raised
           /\ doc' = doc /\ blobs' = blobs /\ fs' = fs
           /\ doc' = EmptyDoc)]_vars

C4_Witness ==
    /\ prev.op = "empty" /\ prev.clean
    /\ last.op = "empty" /\ last.clean /\ last.ok
    /\ nops = 3 /\ fs[<<"u", "a">>] = Absent
    /\ doc = EmptyDoc

\* C5. When the index document is absent or cannot be parsed, the index read
\* is empty and move_to_recycle does not raise; the index it writes holds the
\* new entry and no other.
C5_CorruptIndexIsEmpty ==
    [][(Called /\ doc.t \in {"absent", "garbage"} /\ last'.op = "move")
       => (/\ Index = EmptyMap
           /\ last'.ok /\ ~last'.raised
           /\ doc'.t \in {"map", "garbage", "absent"}
           /\ (doc'.t = "map" => DOMAIN doc'.m = {last'.key}))]_vars

\* A move after the corruption of an index that held an entry: the blob of the
\* lost entry is still in the archive, the index holds the new entry alone.
C5_Witness ==
    /\ nops = 3 /\ last.op = "move" /\ last.reset /\ ~prev.clean
    /\ doc.t = "map" /\ DOMAIN doc.m = {last.key}
    /\ \E k \in AllKeys \ {last.key} : blobs[k].k = "file"

\* C6. move_to_recycle of a directory records {orig, type "unknown", saved
\* None}, copies nothing and leaves the directory; restore_from_recycle of an
\* entry of type "unknown" returns (True, "Restored"), copies no file, and
\* removes the entry from the index.
C6_Directory ==
    [][/\ (/\ Called /\ last'.op = "move"
           /\ NodeAt(fs, Abspath(last'.path)).k = "dir")
          => (/\ blobs' = blobs /\ fs' = fs
              /\ (last'.clean =>
                    /\ doc'.t = "map" /\ last'.key \in DOMAIN doc'.m
                    /\ doc'.m[last'.key] =
                         [null |-> FALSE, orig |-> Abspath(last'.path),
                          type |-> "unknown", saved |-> NoSaved]))
       /\ (/\ Called /\ last'.op = "restore"
           /\ last'.key \in DOMAIN Index
           /\ Index[last'.key].type = "unknown")
          => (/\ last'.ok /\ last'.msg = "Restored"
              /\ blobs' = blobs /\ fs' = fs
              /\ (last'.clean =>
                    /\ doc'.t = "map"
                    /\ DOMAIN doc'.m = (DOMAIN Index) \ {last'.key}
                    /\ \A k \in DOMAIN doc'.m : doc'.m[k] = Index[k]))]_vars

\* The second of two calls: the move of the directory, then its restore.
C6_Witness ==
    /\ nops = 2 /\ prev.op = "move" /\ prev.clean
    /\ last.op = "restore" /\ last.ok /\ last.clean /\ ~last.file
    /\ last.key[2] = "unknown"
    /\ fs[<<"u", "d">>] = Dir
    /\ last.key \notin DOMAIN doc.m

\* C7. When the copy step of restore_from_recycle fails, the call returns
\* (False, <message>), the index document is unchanged (the entry is still
\* there, with the same fields) and no blob is deleted.
C7_RestoreCopyFails ==
    [][(Called /\ last'.op = "restore" /\ last'.st \in {"mkdir", "open", "write"})
       => (/\ ~last'.ok /\ last'.msg = "error" /\ ~last'.raised
           /\ doc' = doc /\ last'.key \in DOMAIN doc'.m
           /\ blobs' = blobs)]_vars

C7_Witness ==
    /\ last.op = "restore" /\ last.st = "write" /\ ~last.ok
    /\ last.key \in DOMAIN doc.m /\ doc.m[last.key].saved = last.key
    /\ blobs[last.key].k = "file"

\* C8 as stated: move_to_recycle(path) returns "<timestamp>_<basename(path)>"
\* and does not raise.
C8_KeyIsBasename ==
    last.op = "move" => (~last.raised /\ last.key = MakeKey(clock, Basename(last.path)))

\* C8, amended. move_to_recycle(path) returns "<timestamp>_<name>", name being
\* basename(path), or "unknown" when basename(path) is empty, whatever I/O
\* step fails, and does not raise; the index it writes holds an entry under
\* that key.
C8_KeyIsName ==
    [][(Called /\ last'.op = "move")
       => (/\ last'.ok /\ ~last'.raised
           /\ last'.key = MakeKey(clock', IF Basename(last'.path) = ""
                                          THEN "unknown"
                                          ELSE Basename(last'.path))
           /\ ((doc' # doc /\ doc'.t = "map") =>
                 /\ last'.key \in DOMAIN doc'.m
                 /\ doc'.m[last'.key].orig = Abspath(last'.path)))]_vars

C8_Witness ==
    /\ last.op = "move" /\ last.path = <<"u", "d", "">>
    /\ last.key = MakeKey(clock, "unknown")
    /\ doc.t = "map" /\ last.key \in DOMAIN doc.m

\* C9. Whatever the index document holds, the index read is a mapping whose
\* values are all entry objects.
C9_LoadedIsMapping ==
    /\ LoadRecycleIndex(doc).t = "map"
    /\ \A k \in DOMAIN Index : ~Index[k].null

\* C10. Two move_to_recycle calls in the same second on items of the same
\* base name produce the same key; after the second (no I/O step of it
\* failing) the entry under the key is the second call's, and when both items
\* are regular files the blob under the key holds the second file's bytes.
C10_SameKeyOverwrites ==
    [][(/\ Called
        /\ last.op = "move" /\ last'.op = "move"
        /\ clock' = clock
        /\ Basename(last'.path) = Basename(last.path)
        /\ last'.clean)
       => (/\ last'.key = last.key
           /\ doc'.t = "map" /\ last'.key \in DOMAIN doc'.m
           /\ doc'.m[last'.key] =
                [null |-> FALSE, orig |-> Abspath(last'.path),
                 type |-> IF last'.file THEN "file" ELSE "unknown",
                 saved |-> IF last'.file THEN last'.key ELSE NoSaved]
           /\ ((last.file /\ last'.file) => blobs'[last'.key] = File(last'.c)))]_vars

\* The second of two calls: both files moved, one entry, the second's.
C10_Witness ==
    /\ nops = 2 /\ prev.op = "move" /\ prev.clean
    /\ last.op = "move" /\ last.clean /\ last.file /\ last.path = <<"v", "a">>
    /\ fs[<<"u", "a">>] = Absent /\ fs[<<"v", "a">>] = Absent
    /\ DOMAIN doc.m = {last.key}
    /\ doc.m[last.key].orig = <<"v", "a">>
    /\ blobs[last.key] = File(<<2>>)

\* A call that failed: one of its I/O steps failed, or restore_from_recycle
\* returned False.
Failed(call) == ~call.clean \/ (call.op = "restore" /\ ~call.ok)

\* C11. No store call raises to its caller, and a call that fails leaves the
\* index document, the archive and the file system as they were before it.
C11_FailureIsNoOp ==
    [][Called
       => (/\ ~last'.raised
           /\ (Failed(last') => (doc' = doc /\ blobs' = blobs /\ fs' = fs)))]_vars

\* C12. restore_from_recycle(key, target_path) of an entry that has a saved
\* path, the blob being in the archive, dest not being a directory nor its
\* parent a file, and no I/O step failing: the bytes of the blob are written
\* to target_path when one is given (its parent directory being created, the
\* recorded original path left as it was) and to the recorded original path
\* when none is; the blob is then deleted and the entry removed.
C12_RestoreDest ==
    [][(/\ Called /\ last'.op = "restore" /\ last'.clean
        /\ last'.key \in DOMAIN Index
        /\ ~Index[last'.key].null
        /\ Index[last'.key].saved # NoSaved
        /\ blobs[Index[last'.key].saved].k = "file"
        /\ LET e == Index[last'.key]
               dest == IF last'.tgt # NoTarget THEN last'.tgt ELSE e.orig
           IN  NodeAt(fs, dest).k # "dir" /\ NodeAt(fs, Parent(dest)).k # "file")
       => LET e == Index[last'.key]
              dest == IF last'.tgt # NoTarget THEN last'.tgt ELSE e.orig
          IN  /\ last'.ok /\ last'.msg = "Restored"
              /\ fs'[dest] = File(blobs[e.saved].c)
              /\ NodeAt(fs', Parent(dest)).k = "dir"
              /\ \A p \in FsPaths \ {dest, Parent(dest)} : fs'[p] = fs[p]
              /\ blobs'[e.saved] = Absent
              /\ doc'.t = "map" /\ last'.key \notin DOMAIN doc'.m]_vars

\* The second of two calls: the moved file restored to the target, in a
\* directory the call created, its original path still empty.
C12_Witness ==
    /\ nops = 2 /\ prev.op = "move" /\ prev.clean
    /\ last.op = "restore" /\ last.ok /\ last.clean /\ last.file
    /\ last.tgt = <<"w", "t">>
    /\ fs[<<"w">>] = Dir /\ fs[<<"w", "t">>] = File(last.c)
    /\ \E p \in {<<"u", "a">>, <<"v", "a">>} : fs[p] = Absent
    /\ blobs[last.key] = Absent /\ last.key \notin DOMAIN doc.m

\* The Active keys: those present in the index a call reads from document d.
Active(d) == DOMAIN LoadRecycleIndex(d).m

\* C13. Over any sequence of calls a key becomes Active only in the
\* move_to_recycle call that generates it, and an Active key becomes Gone only
\* in a successful restore_from_recycle of that key or in an empty_recycle.
C13_KeyLifecycle ==
    [][\A k \in AllKeys :
         /\ (k \notin Active(doc) /\ k \in Active(doc'))
            => (last'.op = "move" /\ last'.key = k)
         /\ (k \in Active(doc) /\ k \notin Active(doc'))
            => \/ (last'.op = "restore" /\ last'.key = k /\ last'.ok)
               \/ last'.op = "empty"]_vars

\* C14. Two writers, each in one move_to_recycle call, their keys different,
\* no restore_from_recycle or empty_recycle running: once both have saved,
\* the index holds at least one of the two entries, and it holds both exactly
\* when one writer loaded the index after the other had saved; when both
\* loaded before either saved, the entry of the first to save is lost.
C14_LostUpdate ==
    (/\ \A w \in Writers : writers[w].pc = "done"
     /\ writers[1].key # writers[2].key)
    => (/\ doc.t = "map"
        /\ \E w \in Writers : writers[w].key \in DOMAIN doc.m
        /\ ({writers[1].key, writers[2].key} \subseteq DOMAIN doc.m
            <=> \E w \in Writers, v \in Writers : v # w /\ writers[v].key \in writers[w].seen))

\* Both regular files were moved into the archive under different keys, and
\* the index holds one entry.
C14_Witness ==
    /\ \A w \in Writers : writers[w].pc = "done"
    /\ writers[1].key # writers[2].key
    /\ fs[<<"u", "a">>] = Absent /\ fs[<<"v", "a">>] = Absent
    /\ blobs[writers[1].key].k = "file" /\ blobs[writers[2].key].k = "file"
    /\ doc.t = "map" /\ Cardinality(DOMAIN doc.m) = 1

\* C15. After any sequence of calls the archive holds exactly one blob per
\* entry of type "file", named by the entry's key: the saved path of every
\* such entry is the archive path of its key and that blob exists, and every
\* blob in the archive has an entry of type "file" under its name.
C15_OneBlobPerFileEntry ==
    /\ \A k \in Active(doc) :
         (~Index[k].null /\ Index[k].type = "file")
         => (Index[k].saved = k /\ blobs[k].k = "file")
    /\ \A k \in AllKeys :
         blobs[k].k = "file"
         => (k \in Active(doc) /\ ~Index[k].null /\ Index[k].type = "file")

\* C16. When the copy step of move_to_recycle(path) on a regular file raises
\* (the source or the blob cannot be opened, or the write fails), the entry
\* the call writes to the index under its key is {orig: absolute path, type:
\* "error", saved: None}; when the index write fails too, the document is the
\* one before the call or an unparseable one.
C16_CopyErrorEntry ==
    [][(Called /\ last'.op = "move" /\ last'.file /\ last'.st \in {"pre", "post"})
       => (/\ last'.ok /\ ~last'.raised
           /\ \/ doc' = doc
              \/ doc' = Garbage
              \/ /\ doc'.t = "map" /\ last'.key \in DOMAIN doc'.m
                 /\ doc'.m[last'.key] =
                      [null |-> FALSE, orig |-> Abspath(last'.path),
                       type |-> "error", saved |-> NoSaved])]_vars

\* A move whose write failed after the blob was opened: the entry says
\* "error", the file is still at its path and a blob is in the archive.
C16_Witness ==
    /\ last.op = "move" /\ last.file /\ last.st = "post"
    /\ doc.t = "map" /\ last.key \in DOMAIN doc.m
    /\ doc.m[last.key].type = "error" /\ doc.m[last.key].saved = NoSaved
    /\ fs[last.path] = File(last.c)
    /\ blobs[last.key].k = "file"

\* C17. In every reachable state every entry of the index has a type among
\* "file", "unknown" and "error", and its saved path is present exactly when
\* the type is "file".
C17_EntryShape ==
    \A k \in Active(doc) :
        /\ ~Index[k].null
        /\ Index[k].type \in {"file", "unknown", "error"}
        /\ (Index[k].saved # NoSaved <=> Index[k].type = "file")

\* An index holding an entry of each type.
C17_Witness ==
    /\ doc.t = "map"
    /\ \A ty \in {"file", "unknown", "error"} :
         \E k \in DOMAIN doc.m : doc.m[k].type = ty

\* C18. move_to_recycle deletes the original only after the whole copy was
\* made: when the call on a regular file leaves its path empty, the blob under
\* the returned key holds the file's full content; when the copy fails the
\* file system is as before the call; a call on something else than a regular
\* file deletes nothing.
C18_RemoveAfterCopy ==
    [][(Called /\ last'.op = "move")
       => (/\ last'.file
              => /\ fs'[last'.path] \in {Absent, fs[last'.path]}
                 /\ (fs'[last'.path] = Absent
                       => blobs'[last'.key] = File(fs[last'.path].c))
                 /\ (last'.st # "ok" => fs'[last'.path] = fs[last'.path])
           /\ \A p \in FsPaths : p # last'.path => fs'[p] = fs[p])]_vars

\* A move that deleted the original: the blob holds its content.
C18_Witness ==
    /\ last.op = "move" /\ last.file /\ last.st = "ok"
    /\ fs[last.path] = Absent
    /\ blobs[last.key] = File(last.c) /\ last.c # <<>>

\* C19. restore_from_recycle(key) touches only its own entry: after the call,
\* whether it returned True or False, every other key of the index is still
\* in it with the same fields and every other blob is unchanged; and
\* move_to_recycle changes no entry but the one under the key it generates.
C19_OwnEntryOnly ==
    [][(Called /\ last'.op \in {"move", "restore"})
       => (/\ \A k \in Active(doc) \ {last'.key} :
                k \in Active(doc') /\ LoadRecycleIndex(doc').m[k] = Index[k]
           /\ (last'.op = "restore"
                 => \A k \in AllKeys \ {last'.key} : blobs'[k] = blobs[k]))]_vars

====
